---- MODULE Spec2Model ----
(***************************************************************************)
(* Weather dashboard (assets/js/app.js): the updateWeather pipeline, the    *)
(* search field and the prayer-times widget.                               *)
(* One call of updateWeather(lat, lon) creates a closure (a "navigation")  *)
(* that issues the current-weather request and, from its callback, the     *)
(* reverse-geocode, air-pollution and forecast requests.  Callbacks write  *)
(* into module-level DOM elements shared by every navigation.              *)
(***************************************************************************)
EXTENDS Integers, Sequences, FiniteSets, TLC

(* ------------------------------ bounds --------------------------------- *)
\* updateWeather calls in one behaviour
MaxNav == 2
\* longest forecast list the weather API returns in Spec
MaxList == 1
\* longest forecast list in SpecForecast (one navigation, 5 days x 8 entries)
MaxLongList == 40
\* most matches a geocode or reverse-geocode response holds
MaxMatches == 2
\* input events on the search field in one behaviour
MaxInputs == 3

VARIABLES
    hash,                   \* window.location.hash
    navs,                   \* the closures of the updateWeather calls, oldest first
    loading,                \* loading.style.display
    overflowY,              \* container.style.overflowY
    fadeIn,                 \* container.classList contains "fade-in"
    errorInterface,         \* errorInterface.style.display
    currentLocationBtn,     \* currentLocationBtn has the attribute "disabled"
    currentWeatherSection,  \* children of [data-current-weather]
    highlightsSection,      \* children of [data-highlights]
    hourlyForecastSection,  \* children of [data-hourly-forecast]
    dailyForecastSection,   \* children of [data-5-day-forecast]
    hiders,                 \* history: the navigations whose callback hid the loading indicator
    staleRan,               \* history: a callback of a superseded navigation ran after the latest call
    searchView,             \* searchView.classList contains "header__search--active"
    searchFieldValue,       \* searchField.value, a sequence of characters
    searching,              \* searchField.classList contains "header__search-field--searching"
    searchTimeout,          \* the module variable searchTimeout: 0 for null, else a timer id
    timers,                 \* the timers setTimeout has armed and that have neither fired nor been cleared
    geoRequests,            \* the fetchData(url.geo(...)) calls, oldest first
    searchResult,           \* [data-search-result]: its "active" class and its list items
    inputs,                 \* history: input events so far
    sinceInput,             \* history: milliseconds since the last input event, up to the delay
    arrivals,               \* history: the geocode requests in the order their callbacks ran
    locationSearch,         \* window.location.search, as its parameters
    prayerContainer,        \* the document has a [data-prayer-times] section
    geolocationApi,         \* navigator.geolocation is available
    prayerPc,               \* where initPrayerTimes stands
    coords,                 \* its local variable coords
    promise,                \* the promise it awaits for the geolocation position
    prayerTimer,            \* the timer racing the geolocation request
    positionRequest,        \* the getCurrentPosition request
    apiUrl,                 \* the prayer-times request built
    metaEl,                 \* textContent of [data-prayer-location]
    listEl,                 \* children of [data-prayer-list]
    resolveCalls            \* history: who called resolve, in order

weatherVars == <<hash, navs, loading, overflowY, fadeIn, errorInterface, currentLocationBtn,
                 currentWeatherSection, highlightsSection, hourlyForecastSection,
                 dailyForecastSection, hiders, staleRan>>

searchVars == <<searchView, searchFieldValue, searching, searchTimeout, timers, geoRequests,
                searchResult, inputs, sinceInput, arrivals>>

prayerVars == <<locationSearch, prayerContainer, geolocationApi, prayerPc, coords, promise,
                prayerTimer, positionRequest, apiUrl, metaEl, listEl, resolveCalls>>

vars == <<weatherVars, searchVars, prayerVars>>

dom == <<loading, overflowY, fadeIn, errorInterface, currentLocationBtn,
         currentWeatherSection, highlightsSection, hourlyForecastSection,
         dailyForecastSection>>

(* ------------------------- inputs and payloads ------------------------- *)
\* The coordinates of the "Go Home" link and of the position geolocation reports.
DefaultLocation == [lat |-> "51.5073219", lon |-> "-0.1276474"]
Positions == { [lat |-> "44.4938203", lon |-> "11.3426327"] }

NoQuery == [lat |-> "", lon |-> ""]

\* URL hashes: the two recognised routes and an unroutable one.
WeatherHashes == { [route |-> "/weather", query |-> DefaultLocation] }
CurrentLocationHash == [route |-> "/current-location", query |-> NoQuery]
UnknownHash == [route |-> "/nowhere", query |-> NoQuery]
NoHash == [route |-> "", query |-> NoQuery]

\* An error-shaped body the API returns with HTTP 200.
ErrorPayload == [cod |-> "401", message |-> "Invalid API key"]

\* Temperatures are kept in tenths of a degree.
BaseTemp(lat) == IF lat = "44.4938203" THEN 216 ELSE 143
TimezoneOf(lat) == IF lat = "44.4938203" THEN 3600 ELSE 0

CurrentWeatherAt(lat, lon) ==
    [ weather    |-> << [description |-> "clear sky", icon |-> "01d"] >>,
      dt         |-> 43200,
      sys        |-> [sunrise |-> 21600, sunset |-> 64800],
      main       |-> [temp |-> BaseTemp(lat), feels_like |-> BaseTemp(lat) - 12,
                      pressure |-> 1013, humidity |-> 60],
      visibility |-> 10000,
      timezone   |-> TimezoneOf(lat) ]

CurrentWeatherPayloads(lat, lon) == { ErrorPayload, CurrentWeatherAt(lat, lon) }

AirPollutionAt(lat, lon) ==
    [ list |-> << [ main |-> [aqi |-> IF lat = "44.4938203" THEN 3 ELSE 2],
                    components |-> [no2 |-> 12, o3 |-> 68, so2 |-> 2, pm2_5 |-> 9] ] >> ]

AirPollutionPayloads(lat, lon) == { ErrorPayload, AirPollutionAt(lat, lon) }

\* Entry i (0-based) of a forecast: 3-hour steps from 2025-01-01 00:00 UTC.
ForecastEntry(lat, i) ==
    [ dt      |-> i * 10800,
      main    |-> [temp |-> BaseTemp(lat) + 7 * i, temp_max |-> BaseTemp(lat) + 7 * i + 15],
      weather |-> << [icon |-> "02d", description |-> "few clouds"] >>,
      wind    |-> [deg |-> (40 * i) % 360, speed |-> 25 + i],
      dt_txt  |-> [year |-> 2025, month |-> 1, day |-> 1 + (i \div 8), hour |-> (3 * i) % 24] ]

ForecastAt(lat, lon, len) ==
    [ list |-> [i \in 1..len |-> ForecastEntry(lat, i - 1)],
      city |-> [timezone |-> TimezoneOf(lat)] ]

ForecastPayloads(lat, lon, maxLen) ==
    { ErrorPayload } \cup { ForecastAt(lat, lon, len) : len \in 0..maxLen }

Place(lat, k) ==
    IF lat = "44.4938203"
    THEN [name |-> IF k = 1 THEN "Bologna" ELSE "Casalecchio", country |-> "IT"]
    ELSE [name |-> IF k = 1 THEN "London" ELSE "Westminster", country |-> "GB"]

ReverseGeoResponses(lat, lon) ==
    { [k \in 1..m |-> Place(lat, k)] : m \in 0..MaxMatches }

(* ------------------------ api.js: validators --------------------------- *)
\* validator.currentWeather: the fields the "Now" card destructures are present.
validatorCurrentWeather(data) ==
    /\ "weather" \in DOMAIN data
    /\ Len(data.weather) > 0
    /\ "main" \in DOMAIN data
    /\ "sys" \in DOMAIN data

\* validator.airPollution: a non-empty list.
validatorAirPollution(data) ==
    /\ "list" \in DOMAIN data
    /\ Len(data.list) > 0

\* validator.forecast: a list and the city's timezone.
validatorForecast(data) ==
    /\ "list" \in DOMAIN data
    /\ "city" \in DOMAIN data

(* ---------------------- module.js: formatting -------------------------- *)
\* parseInt of a number kept in tenths: truncation toward zero.
parseInt(tenths) == IF tenths >= 0 THEN tenths \div 10 ELSE -((-tenths) \div 10)

\* module.mpsToKmh, on tenths: speed * 3.6.
mpsToKmh(mps) == (mps * 36) \div 10

\* module.getFormattedHour: the local hour on a 12-hour clock.
getFormattedHour(timeUnix, timezone) ==
    LET hours == ((timeUnix + timezone) \div 3600) % 24
    IN  << IF hours % 12 = 0 THEN 12 ELSE hours % 12, IF hours >= 12 THEN "PM" ELSE "AM" >>

\* module.getFormattedTime: the local hour and minute on a 12-hour clock.
getFormattedTime(timeUnix, timezone) ==
    LET secs  == (timeUnix + timezone) % 86400
        hours == secs \div 3600
    IN  << IF hours % 12 = 0 THEN 12 ELSE hours % 12, (secs % 3600) \div 60,
           IF hours >= 12 THEN "PM" ELSE "AM" >>

\* module.getFormattedDate: the local day, counted from the epoch.
getFormattedDate(dateUnix, timezone) == (dateUnix + timezone) \div 86400

monthNames == << "Jan", "Feb", "Mar", "Apr", "May", "Jun",
                 "Jul", "Aug", "Sep", "Oct", "Nov", "Dec" >>

weekDayNames == << "Sunday", "Monday", "Tuesday", "Wednesday", "Thursday", "Friday", "Saturday" >>

\* new Date(dt_txt).getDay() for a date of January 2025 (the 1st is a Wednesday).
getDay(dt_txt) == (3 + (dt_txt.day - 1)) % 7

aqiText == << "Good", "Fair", "Moderate", "Poor", "Very Poor" >>

(* ------------------------------ closures ------------------------------- *)
NotReceived == [received |-> FALSE]

Kinds == {"cw", "rg", "ap", "fc"}

\* Mutant: every request is issued by updateWeather itself.
NewClosureEager(lat, lon) ==
    [ lat |-> lat, lon |-> lon,
      cw |-> "pending", rg |-> "pending", ap |-> "pending", fc |-> "pending",
      currentWeather |-> NotReceived, locations |-> << >>,
      airPollution |-> NotReceived, forecast |-> NotReceived, location |-> << >>,
      sent |-> [cw |-> 1, rg |-> 1, ap |-> 1, fc |-> 1] ]

\* The closure of one updateWeather call.  cw, rg, ap, fc are the states of its four
\* requests: "none" (not issued), "pending", "failed" (fetchData reported an error and
\* did not call back), "rejected" (the validator refused the payload), "rendered"/"done".
NewClosure(lat, lon) ==
    [ lat |-> lat, lon |-> lon,
      cw |-> "pending", rg |-> "none", ap |-> "none", fc |-> "none",
      currentWeather |-> NotReceived,   \* the payload the callbacks close over
      locations      |-> << >>,         \* the reverse-geocode response received
      airPollution   |-> NotReceived,   \* the air-pollution response received
      forecast       |-> NotReceived,   \* the forecast response received
      location       |-> << >>,         \* innerHTML of the card's [data-location]
      sent           |-> [cw |-> 1, rg |-> 0, ap |-> 0, fc |-> 0] ]  \* history: fetchData calls

Latest == Len(navs)

\* The fetchData counters after the three follow-up requests have been issued.
FollowUpsSent(sent) == [k \in Kinds |-> IF k = "cw" THEN sent[k] ELSE sent[k] + 1]

(* --------------------------- rendering --------------------------------- *)
\* The "Now" card built by the current-weather callback of navigation n.
nowCard(n, currentWeather) ==
    [ src         |-> n,
      temp        |-> parseInt(currentWeather.main.temp),
      icon        |-> currentWeather.weather[1].icon,
      description |-> currentWeather.weather[1].description,
      date        |-> getFormattedDate(currentWeather.dt, currentWeather.timezone) ]

\* The text the reverse-geocode callback writes into the card's [data-location].
locationLabel(locations) ==
    IF Len(locations) > 0
    THEN << locations[1].name, ", ", locations[1].country >>
    ELSE << "Unkown location" >>

\* The highlights card: the air-pollution payload with the current-weather values
\* the enclosing current-weather callback destructured.
highlightsCard(n, currentWeather, airPollution) ==
    LET aqi == airPollution.list[1].main.aqi
    IN  [ src        |-> n,
          aqi        |-> aqi,
          level      |-> aqiText[aqi],
          components |-> airPollution.list[1].components,
          sunrise    |-> getFormattedTime(currentWeather.sys.sunrise, currentWeather.timezone),
          sunset     |-> getFormattedTime(currentWeather.sys.sunset, currentWeather.timezone),
          humidity   |-> currentWeather.main.humidity,
          pressure   |-> currentWeather.main.pressure,
          visibility |-> currentWeather.visibility \div 1000,
          feels_like |-> parseInt(currentWeather.main.feels_like) ]

tempLi(data, timezone) ==
    [ hour |-> getFormattedHour(data.dt, timezone),
      icon |-> data.weather[1].icon,
      temp |-> parseInt(data.main.temp) ]

windLi(data, timezone) ==
    [ hour   |-> getFormattedHour(data.dt, timezone),
      rotate |-> data.wind.deg - 180,
      kmh    |-> parseInt(mpsToKmh(data.wind.speed)) ]

\* Mutant: the loop breaks one entry late (index > 8).
RECURSIVE hourlyLoopBreaksLate(_, _, _, _)
hourlyLoopBreaksLate(forecastList, timezone, index, lists) ==
    IF index >= Len(forecastList) THEN lists
    ELSE IF index > 8 THEN lists
    ELSE hourlyLoopBreaksLate(forecastList, timezone, index + 1,
            [ temp |-> Append(lists.temp, tempLi(forecastList[index + 1], timezone)),
              wind |-> Append(lists.wind, windLi(forecastList[index + 1], timezone)) ])

\* for (const [index, data] of forecastList.entries()) { if (index > 7) break; ... }
\* index is 0-based; lists holds the [data-temp] and [data-wind] children so far.
RECURSIVE hourlyLoop(_, _, _, _)
hourlyLoop(forecastList, timezone, index, lists) ==
    IF index >= Len(forecastList) THEN lists
    ELSE IF index > 7 THEN lists
    ELSE hourlyLoop(forecastList, timezone, index + 1,
            [ temp |-> Append(lists.temp, tempLi(forecastList[index + 1], timezone)),
              wind |-> Append(lists.wind, windLi(forecastList[index + 1], timezone)) ])

dailyLi(data) ==
    [ icon  |-> data.weather[1].icon,
      temp  |-> parseInt(data.main.temp_max),
      date  |-> << data.dt_txt.day, monthNames[data.dt_txt.month] >>,
      day   |-> weekDayNames[getDay(data.dt_txt) + 1] ]

\* Mutant: the loop advances by 7 instead of 8.
RECURSIVE dailyLoopStepsBySeven(_, _, _)
dailyLoopStepsBySeven(forecastList, i, items) ==
    IF i < Len(forecastList)
    THEN dailyLoopStepsBySeven(forecastList, i + 7, Append(items, dailyLi(forecastList[i + 1])))
    ELSE items

\* Mutant: the loop takes the last entry of a day that is not complete.
RECURSIVE dailyLoopTakesPartialDay(_, _, _)
dailyLoopTakesPartialDay(forecastList, i, items) ==
    IF i < Len(forecastList)
    THEN dailyLoopTakesPartialDay(forecastList, i + 8, Append(items, dailyLi(forecastList[i + 1])))
    ELSE IF i - 7 < Len(forecastList)
    THEN Append(items, dailyLi(forecastList[Len(forecastList)]))
    ELSE items

\* for (let i = 7, len = forecastList.length; i < len; i += 8) { ... }
\* i is 0-based; items holds the [data-daily-forecast-list] children so far.
RECURSIVE dailyLoop(_, _, _)
dailyLoop(forecastList, i, items) ==
    IF i < Len(forecastList)
    THEN dailyLoop(forecastList, i + 8, Append(items, dailyLi(forecastList[i + 1])))
    ELSE items

(* ------------------------- prayer-times values -------------------------- *)
\* null, set apart from every coordinate pair and request.
Null == [null |-> TRUE]

\* Numbers, in units of 10^-7, and NaN.
Num(e7) == [nan |-> FALSE, e7 |-> e7]
NaN == [nan |-> TRUE, e7 |-> 0]

\* window.location.search: empty, or a query string with its lat and lon parameters
\* ("" for a parameter that is absent or empty).
NoSearch == [empty |-> TRUE, lat |-> "", lon |-> ""]
SearchStrings ==
    { NoSearch } \cup
    { [empty |-> FALSE, lat |-> lat, lon |-> lon] :
          lat \in {"", "51.5073219", "abc"}, lon \in {"", "-0.1276474"} }

\* The decimal strings of the model and their values, in units of 10^-7 degrees.
NumberOf ==
    [ str \in {"51.5073219", "-0.1276474", "44.4938203", "11.3426327"} |->
        CASE str = "51.5073219" -> 515073219
          [] str = "-0.1276474" -> -1276474
          [] str = "44.4938203" -> 444938203
          [] str = "11.3426327" -> 113426327 ]

\* parseFloat: the number a string starts with, NaN when it starts with none.
parseFloat(str) == IF str \in DOMAIN NumberOf THEN Num(NumberOf[str]) ELSE NaN

\* Number.prototype.toFixed(4), in units of 10^-4.
toFixed4(x) ==
    IF x.nan THEN [nan |-> TRUE, e4 |-> 0]
    ELSE [nan |-> FALSE,
          e4  |-> IF x.e7 >= 0 THEN (x.e7 + 500) \div 1000 ELSE -((-x.e7 + 500) \div 1000)]

\* The fallback coordinates (Riyadh).
FallbackCoords == [lat |-> Num(247136000), lon |-> Num(466753000)]

\* The caller-side timer racing the geolocation request, in milliseconds.
geolocationTimer == 8000

\* The options passed to getCurrentPosition.
positionOptions == [maximumAge |-> 60000, timeout |-> 7000, enableHighAccuracy |-> FALSE]

NoPromise == [state |-> "none", value |-> Null]
NoTimer == [armed |-> FALSE, remaining |-> 0]
NoPositionRequest == [state |-> "idle", elapsed |-> 0]

\* Stretches of time between two events of the widget, in milliseconds.
PrayerTimeSteps == { 1000, 4000 }

(* ------------------------------ actions -------------------------------- *)
\* The page after the module was loaded, but for the URL and the prayer-times widget.
InitPage ==
    /\ navs = << >>
    /\ loading = ""
    /\ overflowY = ""
    /\ fadeIn = FALSE
    /\ errorInterface = ""
    /\ currentLocationBtn = FALSE
    /\ currentWeatherSection = << >>
    /\ highlightsSection = << >>
    /\ hourlyForecastSection = << >>
    /\ dailyForecastSection = << >>
    /\ hiders = {}
    /\ staleRan = FALSE
    /\ searchView = FALSE
    /\ searchFieldValue = << >>
    /\ searching = FALSE
    /\ searchTimeout = 0
    /\ timers = {}
    /\ geoRequests = << >>
    /\ searchResult = [active |-> FALSE, list |-> << >>, src |-> 0]   \* src: history, the request rendered
    /\ inputs = 0
    /\ sinceInput = 0
    /\ arrivals = << >>

\* index.html has no [data-prayer-times] section: initPrayerTimes returned at once.
Init ==
    /\ hash = NoHash
    /\ InitPage
    /\ locationSearch = NoSearch
    /\ prayerContainer = FALSE
    /\ geolocationApi = TRUE
    /\ prayerPc = "returned"
    /\ coords = Null
    /\ promise = NoPromise
    /\ prayerTimer = NoTimer
    /\ positionRequest = NoPositionRequest
    /\ apiUrl = Null
    /\ metaEl = << >>
    /\ listEl = << >>
    /\ resolveCalls = << >>

\* Mutant: the hourly-forecast section is not cleared.
updateWeatherKeepsHourly(lat, lon, locationHash) ==
    /\ loading' = "grid"
    /\ overflowY' = "hidden"
    /\ fadeIn' = FALSE
    /\ errorInterface' = "none"
    /\ currentWeatherSection' = << >>
    /\ highlightsSection' = << >>
    /\ dailyForecastSection' = << >>
    /\ currentLocationBtn' = (locationHash = CurrentLocationHash)
    /\ navs' = Append(navs, NewClosure(lat, lon))
    /\ staleRan' = FALSE
    /\ UNCHANGED << hiders, hourlyForecastSection >>

\* Mutant: the highlights section is not cleared.
updateWeatherKeepsHighlights(lat, lon, locationHash) ==
    /\ loading' = "grid"
    /\ overflowY' = "hidden"
    /\ fadeIn' = FALSE
    /\ errorInterface' = "none"
    /\ currentWeatherSection' = << >>
    /\ hourlyForecastSection' = << >>
    /\ dailyForecastSection' = << >>
    /\ currentLocationBtn' = (locationHash = CurrentLocationHash)
    /\ navs' = Append(navs, NewClosure(lat, lon))
    /\ staleRan' = FALSE
    /\ UNCHANGED << hiders, highlightsSection >>

\* Mutant: the error view is left as it is.
updateWeatherKeepsError(lat, lon, locationHash) ==
    /\ loading' = "grid"
    /\ overflowY' = "hidden"
    /\ fadeIn' = FALSE
    /\ currentWeatherSection' = << >>
    /\ highlightsSection' = << >>
    /\ hourlyForecastSection' = << >>
    /\ dailyForecastSection' = << >>
    /\ currentLocationBtn' = (locationHash = CurrentLocationHash)
    /\ navs' = Append(navs, NewClosure(lat, lon))
    /\ staleRan' = FALSE
    /\ UNCHANGED << hiders, errorInterface >>

\* Mutant: the current-location button is disabled but never enabled again.
updateWeatherNeverEnablesButton(lat, lon, locationHash) ==
    /\ loading' = "grid"
    /\ overflowY' = "hidden"
    /\ fadeIn' = FALSE
    /\ errorInterface' = "none"
    /\ currentWeatherSection' = << >>
    /\ highlightsSection' = << >>
    /\ hourlyForecastSection' = << >>
    /\ dailyForecastSection' = << >>
    /\ currentLocationBtn' = (currentLocationBtn \/ locationHash = CurrentLocationHash)
    /\ navs' = Append(navs, NewClosure(lat, lon))
    /\ staleRan' = FALSE
    /\ UNCHANGED hiders

\* Mutant: a new call drops the pending requests of the earlier calls.
updateWeatherCancelsPending(lat, lon, locationHash) ==
    /\ loading' = "grid"
    /\ overflowY' = "hidden"
    /\ fadeIn' = FALSE
    /\ errorInterface' = "none"
    /\ currentWeatherSection' = << >>
    /\ highlightsSection' = << >>
    /\ hourlyForecastSection' = << >>
    /\ dailyForecastSection' = << >>
    /\ currentLocationBtn' = (locationHash = CurrentLocationHash)
    /\ navs' = Append([n \in DOMAIN navs |->
                         [k \in DOMAIN navs[n] |->
                             IF k \in Kinds /\ navs[n][k] = "pending" THEN "failed" ELSE navs[n][k]]],
                      NewClosure(lat, lon))
    /\ staleRan' = FALSE
    /\ UNCHANGED hiders

\* updateWeather(lat, lon), called while window.location.hash is locationHash.
updateWeather(lat, lon, locationHash) ==
    /\ loading' = "grid"
    /\ overflowY' = "hidden"
    /\ fadeIn' = FALSE
    /\ errorInterface' = "none"
    /\ currentWeatherSection' = << >>
    /\ highlightsSection' = << >>
    /\ hourlyForecastSection' = << >>
    /\ dailyForecastSection' = << >>
    /\ currentLocationBtn' = (locationHash = CurrentLocationHash)
    /\ navs' = Append(navs, NewClosure(lat, lon))   \* fetchData(url.currentWeather(lat, lon), ...)
    /\ staleRan' = FALSE
    /\ UNCHANGED hiders

\* Mutant: the error view replaces the loading indicator.
error404HidesLoading ==
    /\ errorInterface' = "flex"
    /\ loading' = "none"
    /\ UNCHANGED << navs, overflowY, fadeIn, currentLocationBtn,
                    currentWeatherSection, highlightsSection, hourlyForecastSection,
                    dailyForecastSection, hiders, staleRan >>

error404 ==
    /\ errorInterface' = "flex"
    /\ UNCHANGED << navs, loading, overflowY, fadeIn, currentLocationBtn,
                    currentWeatherSection, highlightsSection, hourlyForecastSection,
                    dailyForecastSection, hiders, staleRan >>

\* route.js: the hash h is dispatched; position is what geolocation reports for
\* "#/current-location".
checkHash(h, position) ==
    /\ hash' = h
    /\ IF h.route = "/weather" THEN updateWeather(h.query.lat, h.query.lon, h)
       ELSE IF h.route = "/current-location" THEN updateWeather(position.lat, position.lon, h)
       ELSE error404

\* fetchData: the request of kind k of navigation n fails (network error, non-2xx):
\* the error is logged and the callback is never invoked.
fetchFail(n, k) ==
    /\ navs[n][k] = "pending"
    /\ navs' = [navs EXCEPT ![n][k] = "failed"]
    /\ UNCHANGED << hash, dom, hiders, staleRan >>

\* Mutant: the three follow-up requests are issued before the payload is validated.
currentWeatherCallbackFetchesFirst(n, currentWeather) ==
    /\ navs[n].cw = "pending"
    /\ staleRan' = (staleRan \/ n < Latest)
    /\ IF ~validatorCurrentWeather(currentWeather)
       THEN /\ navs' = [navs EXCEPT ![n].cw = "rejected",
                                    ![n].rg = "pending", ![n].ap = "pending", ![n].fc = "pending",
                                    ![n].sent = FollowUpsSent(@)]
            /\ UNCHANGED << hash, dom, hiders >>
       ELSE /\ navs' = [navs EXCEPT ![n].cw = "rendered",
                                    ![n].currentWeather = currentWeather,
                                    ![n].rg = "pending", ![n].ap = "pending", ![n].fc = "pending",
                                    ![n].sent = FollowUpsSent(@)]
            /\ currentWeatherSection' = Append(currentWeatherSection, nowCard(n, currentWeather))
            /\ UNCHANGED << hash, loading, overflowY, fadeIn, errorInterface, currentLocationBtn,
                            highlightsSection, hourlyForecastSection, dailyForecastSection,
                            hiders >>

\* Mutant: a rejected current-weather payload is requested again.
currentWeatherCallbackRetries(n, currentWeather) ==
    /\ navs[n].cw = "pending"
    /\ staleRan' = (staleRan \/ n < Latest)
    /\ IF ~validatorCurrentWeather(currentWeather)
       THEN /\ navs' = [navs EXCEPT ![n].sent.cw = @ + 1]
            /\ UNCHANGED << hash, dom, hiders >>
       ELSE /\ navs' = [navs EXCEPT ![n].cw = "rendered",
                                    ![n].currentWeather = currentWeather,
                                    ![n].rg = "pending", ![n].ap = "pending", ![n].fc = "pending",
                                    ![n].sent = FollowUpsSent(@)]
            /\ currentWeatherSection' = Append(currentWeatherSection, nowCard(n, currentWeather))
            /\ UNCHANGED << hash, loading, overflowY, fadeIn, errorInterface, currentLocationBtn,
                            highlightsSection, hourlyForecastSection, dailyForecastSection,
                            hiders >>

\* The callback of fetchData(url.currentWeather(lat, lon), ...) of navigation n.
currentWeatherCallback(n, currentWeather) ==
    /\ navs[n].cw = "pending"
    /\ staleRan' = (staleRan \/ n < Latest)
    /\ IF ~validatorCurrentWeather(currentWeather)
       THEN /\ navs' = [navs EXCEPT ![n].cw = "rejected"]   \* console.error; return
            /\ UNCHANGED << hash, dom, hiders >>
       ELSE /\ navs' = [navs EXCEPT ![n].cw = "rendered",
                                    ![n].currentWeather = currentWeather,
                                    ![n].rg = "pending",    \* fetchData(url.reverseGeo(lat, lon), ...)
                                    ![n].ap = "pending",    \* fetchData(url.airPollution(lat, lon), ...)
                                    ![n].fc = "pending",    \* fetchData(url.forecast(lat, lon), ...)
                                    ![n].sent = FollowUpsSent(@)]
            /\ currentWeatherSection' = Append(currentWeatherSection, nowCard(n, currentWeather))
            /\ UNCHANGED << hash, loading, overflowY, fadeIn, errorInterface, currentLocationBtn,
                            highlightsSection, hourlyForecastSection, dailyForecastSection,
                            hiders >>

\* The callback of fetchData(url.reverseGeo(lat, lon), ...): writes the label of the
\* card its navigation created, whether or not that card is still in the document.
reverseGeoCallback(n, locations) ==
    /\ navs[n].rg = "pending"
    /\ staleRan' = (staleRan \/ n < Latest)
    /\ navs' = [navs EXCEPT ![n].rg = "done",
                            ![n].locations = locations,
                            ![n].location = locationLabel(locations)]
    /\ UNCHANGED << hash, dom, hiders >>

\* Mutant: a rejected air-pollution payload shows the error view.
airPollutionCallbackShowsError(n, airPollution) ==
    /\ navs[n].ap = "pending"
    /\ staleRan' = (staleRan \/ n < Latest)
    /\ IF ~validatorAirPollution(airPollution)
       THEN /\ navs' = [navs EXCEPT ![n].ap = "rejected", ![n].airPollution = airPollution]
            /\ errorInterface' = "flex"
            /\ UNCHANGED << hash, loading, overflowY, fadeIn, currentLocationBtn,
                            currentWeatherSection, highlightsSection, hourlyForecastSection,
                            dailyForecastSection, hiders >>
       ELSE /\ navs' = [navs EXCEPT ![n].ap = "rendered", ![n].airPollution = airPollution]
            /\ highlightsSection' =
                  Append(highlightsSection, highlightsCard(n, navs[n].currentWeather, airPollution))
            /\ UNCHANGED << hash, loading, overflowY, fadeIn, errorInterface, currentLocationBtn,
                            currentWeatherSection, hourlyForecastSection, dailyForecastSection,
                            hiders >>

\* Mutant: the highlights card reads the current-weather payload received last, by
\* whichever navigation, instead of the one its own closure destructured.
airPollutionCallbackReadsLastWeather(n, airPollution) ==
    /\ navs[n].ap = "pending"
    /\ staleRan' = (staleRan \/ n < Latest)
    /\ IF ~validatorAirPollution(airPollution)
       THEN /\ navs' = [navs EXCEPT ![n].ap = "rejected", ![n].airPollution = airPollution]
            /\ UNCHANGED << hash, dom, hiders >>
       ELSE /\ navs' = [navs EXCEPT ![n].ap = "rendered", ![n].airPollution = airPollution]
            /\ LET last == CHOOSE m \in DOMAIN navs :
                               /\ navs[m].cw = "rendered"
                               /\ \A o \in DOMAIN navs : navs[o].cw = "rendered" => o <= m
               IN  highlightsSection' =
                      Append(highlightsSection,
                             highlightsCard(n, navs[last].currentWeather, airPollution))
            /\ UNCHANGED << hash, loading, overflowY, fadeIn, errorInterface, currentLocationBtn,
                            currentWeatherSection, hourlyForecastSection, dailyForecastSection,
                            hiders >>

\* The callback of fetchData(url.airPollution(lat, lon), ...).
airPollutionCallback(n, airPollution) ==
    /\ navs[n].ap = "pending"
    /\ staleRan' = (staleRan \/ n < Latest)
    /\ IF ~validatorAirPollution(airPollution)
       THEN /\ navs' = [navs EXCEPT ![n].ap = "rejected", ![n].airPollution = airPollution]
            /\ UNCHANGED << hash, dom, hiders >>
       ELSE /\ navs' = [navs EXCEPT ![n].ap = "rendered", ![n].airPollution = airPollution]
            /\ highlightsSection' =
                  Append(highlightsSection, highlightsCard(n, navs[n].currentWeather, airPollution))
            /\ UNCHANGED << hash, loading, overflowY, fadeIn, errorInterface, currentLocationBtn,
                            currentWeatherSection, hourlyForecastSection, dailyForecastSection,
                            hiders >>

\* Mutant: the forecast callback empties the highlights section before it renders.
forecastCallbackClearsHighlights(n, forecast) ==
    /\ navs[n].fc = "pending"
    /\ staleRan' = (staleRan \/ n < Latest)
    /\ IF ~validatorForecast(forecast)
       THEN /\ navs' = [navs EXCEPT ![n].fc = "rejected", ![n].forecast = forecast]
            /\ UNCHANGED << hash, dom, hiders >>
       ELSE /\ navs' = [navs EXCEPT ![n].fc = "rendered", ![n].forecast = forecast]
            /\ highlightsSection' = << >>
            /\ hourlyForecastSection' =
                  << [src |-> n] @@ hourlyLoop(forecast.list, forecast.city.timezone, 0,
                                               [temp |-> << >>, wind |-> << >>]) >>
            /\ dailyForecastSection' =
                  << [src |-> n, items |-> dailyLoop(forecast.list, 7, << >>)] >>
            /\ loading' = "none"
            /\ overflowY' = "overlay"
            /\ fadeIn' = TRUE
            /\ hiders' = hiders \cup {n}
            /\ UNCHANGED << hash, errorInterface, currentLocationBtn, currentWeatherSection >>

\* Mutant: the loading indicator is hidden before the payload is validated.
forecastCallbackHidesFirst(n, forecast) ==
    /\ navs[n].fc = "pending"
    /\ staleRan' = (staleRan \/ n < Latest)
    /\ loading' = "none"
    /\ overflowY' = "overlay"
    /\ fadeIn' = TRUE
    /\ hiders' = hiders \cup {n}
    /\ IF ~validatorForecast(forecast)
       THEN /\ navs' = [navs EXCEPT ![n].fc = "rejected", ![n].forecast = forecast]
            /\ UNCHANGED << hash, errorInterface, currentLocationBtn, currentWeatherSection,
                            highlightsSection, hourlyForecastSection, dailyForecastSection >>
       ELSE /\ navs' = [navs EXCEPT ![n].fc = "rendered", ![n].forecast = forecast]
            /\ hourlyForecastSection' =
                  << [src |-> n] @@ hourlyLoop(forecast.list, forecast.city.timezone, 0,
                                               [temp |-> << >>, wind |-> << >>]) >>
            /\ dailyForecastSection' =
                  << [src |-> n, items |-> dailyLoop(forecast.list, 7, << >>)] >>
            /\ UNCHANGED << hash, errorInterface, currentLocationBtn,
                            currentWeatherSection, highlightsSection >>

\* Mutant: only the forecast callback of the latest navigation touches the loading
\* indicator, the scroll and the fade-in.
forecastCallbackOfLatestHides(n, forecast) ==
    /\ navs[n].fc = "pending"
    /\ staleRan' = (staleRan \/ n < Latest)
    /\ IF ~validatorForecast(forecast)
       THEN /\ navs' = [navs EXCEPT ![n].fc = "rejected", ![n].forecast = forecast]
            /\ UNCHANGED << hash, dom, hiders >>
       ELSE /\ navs' = [navs EXCEPT ![n].fc = "rendered", ![n].forecast = forecast]
            /\ hourlyForecastSection' =
                  << [src |-> n] @@ hourlyLoop(forecast.list, forecast.city.timezone, 0,
                                               [temp |-> << >>, wind |-> << >>]) >>
            /\ dailyForecastSection' =
                  << [src |-> n, items |-> dailyLoop(forecast.list, 7, << >>)] >>
            /\ IF n = Latest
               THEN /\ loading' = "none"
                    /\ overflowY' = "overlay"
                    /\ fadeIn' = TRUE
                    /\ hiders' = hiders \cup {n}
               ELSE UNCHANGED << loading, overflowY, fadeIn, hiders >>
            /\ UNCHANGED << hash, errorInterface, currentLocationBtn,
                            currentWeatherSection, highlightsSection >>

\* The callback of fetchData(url.forecast(lat, lon), ...).
forecastCallback(n, forecast) ==
    /\ navs[n].fc = "pending"
    /\ staleRan' = (staleRan \/ n < Latest)
    /\ IF ~validatorForecast(forecast)
       THEN /\ navs' = [navs EXCEPT ![n].fc = "rejected", ![n].forecast = forecast]
            /\ UNCHANGED << hash, dom, hiders >>
       ELSE /\ navs' = [navs EXCEPT ![n].fc = "rendered", ![n].forecast = forecast]
            /\ hourlyForecastSection' =
                  << [src |-> n] @@ hourlyLoop(forecast.list, forecast.city.timezone, 0,
                                               [temp |-> << >>, wind |-> << >>]) >>
            /\ dailyForecastSection' =
                  << [src |-> n, items |-> dailyLoop(forecast.list, 7, << >>)] >>
            /\ loading' = "none"
            /\ overflowY' = "overlay"
            /\ fadeIn' = TRUE
            /\ hiders' = hiders \cup {n}
            /\ UNCHANGED << hash, errorInterface, currentLocationBtn,
                            currentWeatherSection, highlightsSection >>

(* ------------------------------ search --------------------------------- *)
\* The debounce delay of the search field, in milliseconds.
searchTimeoutDuration == 500

\* What the user may leave in the search field: nothing, blanks, and city names with
\* and without surrounding blanks.
InputValues ==
    { << >>, << " ", " " >>, << "r", "o", "m", "e" >>, << " ", "o", "s", "l", "o", " " >> }

\* Stretches of time between two events, in milliseconds.
TimeSteps == { 250, 500 }

RECURSIVE trimStart(_)
trimStart(str) ==
    IF str # << >> /\ Head(str) = " " THEN trimStart(Tail(str)) ELSE str

RECURSIVE trimEnd(_)
trimEnd(str) ==
    IF str # << >> /\ str[Len(str)] = " " THEN trimEnd(SubSeq(str, 1, Len(str) - 1)) ELSE str

\* String.prototype.trim
trim(str) == trimEnd(trimStart(str))

\* A location without a "state" field.
Undefined == "undefined"

\* The geocoding API's m matches for the query q.
GeoLocations(q, m) ==
    [ k \in 1..m |->
        [ name    |-> << trim(q), k >>,
          state   |-> IF k = 1 THEN "Lazio" ELSE Undefined,
          country |-> "IT",
          lat     |-> DefaultLocation.lat,
          lon     |-> DefaultLocation.lon ] ]

\* One <li class="header__search-item"> of the result list.
searchItem(location) ==
    [ title    |-> location.name,
      subtitle |-> << IF location.state = Undefined THEN "" ELSE location.state,
                      " ", location.country >>,
      href     |-> [route |-> "/weather", query |-> [lat |-> location.lat, lon |-> location.lon]] ]

NoResult == [active |-> FALSE, list |-> << >>, src |-> 0]

\* clearTimeout(id) on the set of armed timers.
clearTimeout(armed, id) == { t \in armed : t.id # id }

toggleSearch ==
    /\ searchView' = ~searchView
    /\ UNCHANGED << searchFieldValue, searching, searchTimeout, timers, geoRequests,
                    searchResult, inputs, sinceInput, arrivals >>

\* Mutant: the listener arms a new timer without clearing the one before.
searchInputKeepsTimer(value) ==
    /\ inputs' = inputs + 1
    /\ sinceInput' = 0
    /\ searchFieldValue' = value
    /\ IF trim(value) # << >>
       THEN /\ searching' = TRUE
            /\ searchTimeout' = searchTimeout + 1
            /\ timers' = timers \cup
                            { [id |-> searchTimeout + 1, remaining |-> searchTimeoutDuration] }
            /\ UNCHANGED searchResult
       ELSE /\ searchResult' = NoResult
            /\ searching' = FALSE
            /\ UNCHANGED << searchTimeout, timers >>
    /\ UNCHANGED << searchView, geoRequests, arrivals >>

\* Mutant: emptying the field also aborts the geocode requests in flight.
searchInputAbortsRequests(value) ==
    /\ inputs' = inputs + 1
    /\ sinceInput' = 0
    /\ searchFieldValue' = value
    /\ LET cleared == IF searchTimeout # 0 THEN clearTimeout(timers, searchTimeout) ELSE timers
           query   == trim(value)
       IN  IF query # << >>
           THEN /\ searching' = TRUE
                /\ searchTimeout' = searchTimeout + 1
                /\ timers' = cleared \cup
                                { [id |-> searchTimeout + 1, remaining |-> searchTimeoutDuration] }
                /\ UNCHANGED << searchResult, geoRequests >>
           ELSE /\ searchResult' = NoResult
                /\ searching' = FALSE
                /\ timers' = cleared
                /\ geoRequests' = [r \in DOMAIN geoRequests |->
                                     IF geoRequests[r].status = "pending"
                                     THEN [geoRequests[r] EXCEPT !.status = "failed"]
                                     ELSE geoRequests[r]]
                /\ UNCHANGED searchTimeout
    /\ UNCHANGED << searchView, arrivals >>

\* The "input" listener of the search field; value is the field's content after the
\* event.  Timer ids count the setTimeout calls.
searchInput(value) ==
    /\ inputs' = inputs + 1
    /\ sinceInput' = 0
    /\ searchFieldValue' = value
    /\ LET cleared == IF searchTimeout # 0 THEN clearTimeout(timers, searchTimeout) ELSE timers
           query   == trim(value)
       IN  IF query # << >>
           THEN /\ searching' = TRUE
                /\ searchTimeout' = searchTimeout + 1
                /\ timers' = cleared \cup
                                { [id |-> searchTimeout + 1, remaining |-> searchTimeoutDuration] }
                /\ UNCHANGED searchResult
           ELSE /\ searchResult' = NoResult
                /\ searching' = FALSE
                /\ timers' = cleared
                /\ UNCHANGED searchTimeout
    /\ UNCHANGED << searchView, geoRequests, arrivals >>

\* d milliseconds pass; a timer fires when it is due, so time stops short of passing it.
timePasses(d) ==
    /\ \A t \in timers : t.remaining >= d
    /\ timers # {} \/ sinceInput < searchTimeoutDuration
    /\ timers' = { [t EXCEPT !.remaining = @ - d] : t \in timers }
    /\ sinceInput' = IF sinceInput + d < searchTimeoutDuration
                     THEN sinceInput + d ELSE searchTimeoutDuration
    /\ UNCHANGED << searchView, searchFieldValue, searching, searchTimeout, geoRequests,
                    searchResult, inputs, arrivals >>

\* The timer callback: fetchData(url.geo(searchField.value), ...).
searchTimerFires(id) ==
    /\ \E t \in timers : t.id = id /\ t.remaining = 0
    /\ timers' = clearTimeout(timers, id)
    /\ geoRequests' = Append(geoRequests, [query |-> searchFieldValue, status |-> "pending",
                                           locations |-> << >>])
    /\ UNCHANGED << searchView, searchFieldValue, searching, searchTimeout, searchResult,
                    inputs, sinceInput, arrivals >>

\* fetchData: the geocode request r fails; its callback is never invoked.
geoFetchFail(r) ==
    /\ geoRequests[r].status = "pending"
    /\ geoRequests' = [geoRequests EXCEPT ![r].status = "failed"]
    /\ UNCHANGED << searchView, searchFieldValue, searching, searchTimeout, timers,
                    searchResult, inputs, sinceInput, arrivals >>

\* Mutant: a response is dropped when a newer request has been answered already.
geoCallbackDropsStale(r, locations) ==
    /\ geoRequests[r].status = "pending"
    /\ geoRequests' = [geoRequests EXCEPT ![r].status = "done", ![r].locations = locations]
    /\ arrivals' = Append(arrivals, r)
    /\ IF \E newer \in DOMAIN geoRequests : newer > r /\ geoRequests[newer].status = "done"
       THEN UNCHANGED << searching, searchResult >>
       ELSE /\ searching' = FALSE
            /\ IF Len(locations) > 0
               THEN searchResult' = [active |-> TRUE,
                                     list   |-> [i \in DOMAIN locations |-> searchItem(locations[i])],
                                     src    |-> r]
               ELSE UNCHANGED searchResult
    /\ UNCHANGED << searchView, searchFieldValue, searchTimeout, timers, inputs, sinceInput >>

\* The callback of fetchData(url.geo(...), ...) of request r.
geoCallback(r, locations) ==
    /\ geoRequests[r].status = "pending"
    /\ geoRequests' = [geoRequests EXCEPT ![r].status = "done", ![r].locations = locations]
    /\ arrivals' = Append(arrivals, r)
    /\ searching' = FALSE
    /\ IF Len(locations) > 0
       THEN searchResult' = [active |-> TRUE,
                             list   |-> [i \in DOMAIN locations |-> searchItem(locations[i])],
                             src    |-> r]
       ELSE UNCHANGED searchResult
    /\ UNCHANGED << searchView, searchFieldValue, searchTimeout, timers, inputs, sinceInput >>

\* The "click" listener of a result item.
searchItemClick ==
    /\ searchResult.list # << >>
    /\ searchView' = ~searchView
    /\ searchResult' = NoResult
    /\ UNCHANGED << searchFieldValue, searching, searchTimeout, timers, geoRequests,
                    inputs, sinceInput, arrivals >>

(* --------------------------- prayer times ------------------------------ *)
\* getCoordsFromUrl: lat and lon of window.location.search or, when that is empty, of
\* the query part of the hash.
getCoordsFromUrl ==
    LET params == IF ~locationSearch.empty
                  THEN [lat |-> locationSearch.lat, lon |-> locationSearch.lon]
                  ELSE hash.query
    IN  IF params.lat # "" /\ params.lon # ""
        THEN [lat |-> parseFloat(params.lat), lon |-> parseFloat(params.lon)]
        ELSE Null

\* Mutant: no fallback when no coordinates were found.
chooseCoordsWithoutFallback(found) == found

\* if (!coords) coords = { lat: 24.7136, lon: 46.6753 }
chooseCoords(found) == IF found = Null THEN FallbackCoords ELSE found

\* The text "coordinates: <lat>, <lon>" with four decimals.
coordsText(c) == << "coords", toFixed4(c.lat), toFixed4(c.lon) >>

\* The catch block: the widget shows its error message.
prayerCatch ==
    /\ listEl' = << [label |-> "error", time |-> Null] >>
    /\ metaEl' = << "error" >>
    /\ prayerPc' = "error"

\* initPrayerTimes from the fallback to the fetch of the timings, with the coordinates
\* found so far (Null for none).  Reading a field of null throws into the catch block.
requestTimings(found) ==
    LET chosen == chooseCoords(found)
    IN  /\ coords' = chosen
        /\ IF chosen = Null
           THEN prayerCatch /\ UNCHANGED apiUrl
           ELSE /\ metaEl' = coordsText(chosen)
                /\ apiUrl' = [latitude |-> chosen.lat, longitude |-> chosen.lon,
                              method |-> 2, language |-> "ar"]
                /\ prayerPc' = "fetching"
                /\ UNCHANGED listEl

\* The start of initPrayerTimes, up to its first await.
initPrayerTimes ==
    /\ prayerPc = "start"
    /\ IF ~prayerContainer
       THEN /\ prayerPc' = "returned"
            /\ UNCHANGED << coords, promise, prayerTimer, positionRequest, apiUrl, metaEl,
                            listEl >>
       ELSE IF getCoordsFromUrl = Null /\ geolocationApi
            THEN /\ metaEl' = << "locating" >>
                 /\ promise' = [state |-> "pending", value |-> Null]
                 /\ prayerTimer' = [armed |-> TRUE, remaining |-> geolocationTimer]
                 /\ positionRequest' = [state |-> "prompt", elapsed |-> 0]
                 /\ prayerPc' = "awaiting"
                 /\ UNCHANGED << coords, apiUrl, listEl >>
            ELSE /\ requestTimings(getCoordsFromUrl)
                 /\ UNCHANGED << promise, prayerTimer, positionRequest >>
    /\ UNCHANGED << locationSearch, prayerContainer, geolocationApi, resolveCalls >>

\* The promise's resolve function: only the first call settles it.
resolve(p, value) ==
    IF p.state = "pending" THEN [state |-> "fulfilled", value |-> value] ELSE p

\* A call of resolve(value) by who; when it settles the promise, the awaiting function
\* resumes before any other callback runs.
settle(value, who) ==
    /\ resolveCalls' = Append(resolveCalls, [who |-> who, value |-> value])
    /\ promise' = resolve(promise, value)
    /\ IF promise.state = "pending"
       THEN requestTimings(value)
       ELSE UNCHANGED << coords, apiUrl, metaEl, listEl, prayerPc >>
    /\ UNCHANGED << locationSearch, prayerContainer, geolocationApi >>

\* The user (or a stored permission) lets the browser look for the position.
permissionGranted ==
    /\ positionRequest.state = "prompt"
    /\ positionRequest' = [positionRequest EXCEPT !.state = "acquiring"]
    /\ UNCHANGED << locationSearch, prayerContainer, geolocationApi, prayerPc, coords, promise,
                    prayerTimer, apiUrl, metaEl, listEl, resolveCalls >>

\* The success callback of getCurrentPosition.
positionSuccess(pos) ==
    /\ positionRequest.state = "acquiring"
    /\ positionRequest' = [positionRequest EXCEPT !.state = "called"]
    /\ prayerTimer' = [prayerTimer EXCEPT !.armed = FALSE]       \* clearTimeout(timer)
    /\ settle([lat |-> Num(NumberOf[pos.lat]), lon |-> Num(NumberOf[pos.lon])], "success")

\* The error callback of getCurrentPosition: permission denied, position unavailable,
\* or the platform's own timeout.
positionError ==
    /\ positionRequest.state \in {"prompt", "acquiring"}
    /\ positionRequest' = [positionRequest EXCEPT !.state = "called"]
    /\ prayerTimer' = [prayerTimer EXCEPT !.armed = FALSE]       \* clearTimeout(timer)
    /\ settle(Null, "error")

\* The callback of setTimeout(() => resolve(null), 8000).
prayerTimerFires ==
    /\ prayerTimer.armed /\ prayerTimer.remaining = 0
    /\ prayerTimer' = [prayerTimer EXCEPT !.armed = FALSE]
    /\ settle(Null, "timer")
    /\ UNCHANGED positionRequest

\* d milliseconds pass; the timer fires when due and the platform reports a timeout
\* when the search for the position has lasted positionOptions.timeout.
prayerTimePasses(d) ==
    /\ prayerTimer.armed \/ positionRequest.state = "acquiring"
    /\ prayerTimer.armed => prayerTimer.remaining >= d
    /\ positionRequest.state = "acquiring" =>
          positionRequest.elapsed + d <= positionOptions.timeout
    /\ prayerTimer' = IF prayerTimer.armed
                      THEN [prayerTimer EXCEPT !.remaining = @ - d] ELSE prayerTimer
    /\ positionRequest' = IF positionRequest.state = "acquiring"
                          THEN [positionRequest EXCEPT !.elapsed = @ + d] ELSE positionRequest
    /\ UNCHANGED << locationSearch, prayerContainer, geolocationApi, prayerPc, coords, promise,
                    apiUrl, metaEl, listEl, resolveCalls >>

\* The six timings shown, in order.
prayerKeys == << "Fajr", "Sunrise", "Dhuhr", "Asr", "Maghrib", "Isha" >>

Timings ==
    [ Fajr |-> [hour |-> 5, min |-> 12], Sunrise |-> [hour |-> 6, min |-> 30],
      Dhuhr |-> [hour |-> 12, min |-> 5], Asr |-> [hour |-> 15, min |-> 20],
      Maghrib |-> [hour |-> 17, min |-> 45], Isha |-> [hour |-> 0, min |-> 10] ]

\* What fetch(apiUrl) may give: a network error, a non-2xx status, a body that is not
\* a result, and results with and without a timezone.
PrayerResponses ==
    { [network |-> FALSE],
      [network |-> TRUE, ok |-> FALSE],
      [network |-> TRUE, ok |-> TRUE, data |-> [code |-> 400]],
      [network |-> TRUE, ok |-> TRUE,
       data |-> [code |-> 200, data |-> [timings |-> Timings, meta |-> [timezone |-> "Asia/Riyadh"]]]],
      [network |-> TRUE, ok |-> TRUE,
       data |-> [code |-> 200, data |-> [timings |-> Timings, meta |-> [timezone |-> ""]]]] }

convertTo12Hour(time24) ==
    [ hour |-> IF time24.hour % 12 = 0 THEN 12 ELSE time24.hour % 12,
      min  |-> time24.min,
      ampm |-> IF time24.hour >= 12 THEN "PM" ELSE "AM" ]

\* initPrayerTimes after the fetch: the list of timings, or the catch block.
prayerResponse(resp) ==
    /\ prayerPc = "fetching"
    /\ IF ~resp.network \/ ~resp.ok \/ resp.data.code # 200
       THEN prayerCatch
       ELSE /\ listEl' = [i \in DOMAIN prayerKeys |->
                            [label |-> prayerKeys[i],
                             time  |-> convertTo12Hour(resp.data.data.timings[prayerKeys[i]])]]
            /\ metaEl' = IF resp.data.data.meta.timezone # ""
                         THEN << "zone", resp.data.data.meta.timezone >>
                         ELSE coordsText(coords)
            /\ prayerPc' = "rendered"
    /\ UNCHANGED << locationSearch, prayerContainer, geolocationApi, coords, promise,
                    prayerTimer, positionRequest, apiUrl, resolveCalls >>

(* --------------------------- specifications ---------------------------- *)
\* The router dispatches a hash; at most MaxNav of them reach updateWeather.
Navigate ==
    \E h \in WeatherHashes \cup {CurrentLocationHash, UnknownHash}, position \in Positions :
        /\ h # UnknownHash => Len(navs) < MaxNav
        /\ checkHash(h, position)

FetchFails == \E n \in DOMAIN navs, k \in Kinds : fetchFail(n, k)

CurrentWeatherArrives ==
    \E n \in DOMAIN navs :
        \E p \in CurrentWeatherPayloads(navs[n].lat, navs[n].lon) : currentWeatherCallback(n, p)

ReverseGeoArrives ==
    \E n \in DOMAIN navs :
        \E p \in ReverseGeoResponses(navs[n].lat, navs[n].lon) : reverseGeoCallback(n, p)

AirPollutionArrives ==
    \E n \in DOMAIN navs :
        \E p \in AirPollutionPayloads(navs[n].lat, navs[n].lon) : airPollutionCallback(n, p)

ForecastArrives ==
    \E n \in DOMAIN navs :
        \E p \in ForecastPayloads(navs[n].lat, navs[n].lon, MaxList) : forecastCallback(n, p)

Next ==
    \/ Navigate /\ UNCHANGED << searchVars, prayerVars >>
    \/ FetchFails /\ UNCHANGED << searchVars, prayerVars >>
    \/ CurrentWeatherArrives /\ UNCHANGED << searchVars, prayerVars >>
    \/ ReverseGeoArrives /\ UNCHANGED << searchVars, prayerVars >>
    \/ AirPollutionArrives /\ UNCHANGED << searchVars, prayerVars >>
    \/ ForecastArrives /\ UNCHANGED << searchVars, prayerVars >>

Spec == Init /\ [][Next]_vars

\* One navigation, with forecast lists of every length up to MaxLongList.
NavigateOnce ==
    \E h \in WeatherHashes \cup {CurrentLocationHash, UnknownHash}, position \in Positions :
        /\ h # UnknownHash => navs = << >>
        /\ checkHash(h, position)

LongForecastArrives ==
    \E n \in DOMAIN navs :
        \E p \in ForecastPayloads(navs[n].lat, navs[n].lon, MaxLongList) : forecastCallback(n, p)

NextForecast ==
    \/ NavigateOnce /\ UNCHANGED << searchVars, prayerVars >>
    \/ FetchFails /\ UNCHANGED << searchVars, prayerVars >>
    \/ CurrentWeatherArrives /\ UNCHANGED << searchVars, prayerVars >>
    \/ ReverseGeoArrives /\ UNCHANGED << searchVars, prayerVars >>
    \/ AirPollutionArrives /\ UNCHANGED << searchVars, prayerVars >>
    \/ LongForecastArrives /\ UNCHANGED << searchVars, prayerVars >>

SpecForecast == Init /\ [][NextForecast]_vars

\* The search field: input events, the debounce timer and the geocode responses.
InputArrives ==
    /\ inputs < MaxInputs
    /\ \E value \in InputValues : searchInput(value)

TimePasses == \E d \in TimeSteps : timePasses(d)

TimerFires == \E t \in timers : searchTimerFires(t.id)

GeoArrives ==
    \E r \in DOMAIN geoRequests, m \in 0..MaxMatches :
        geoCallback(r, GeoLocations(geoRequests[r].query, m))

GeoFails == \E r \in DOMAIN geoRequests : geoFetchFail(r)

NextSearch ==
    \/ InputArrives /\ UNCHANGED << weatherVars, prayerVars >>
    \/ TimePasses /\ UNCHANGED << weatherVars, prayerVars >>
    \/ TimerFires /\ UNCHANGED << weatherVars, prayerVars >>
    \/ GeoArrives /\ UNCHANGED << weatherVars, prayerVars >>
    \/ GeoFails /\ UNCHANGED << weatherVars, prayerVars >>
    \/ searchItemClick /\ UNCHANGED << weatherVars, prayerVars >>
    \/ toggleSearch /\ UNCHANGED << weatherVars, prayerVars >>

SpecSearch == Init /\ [][NextSearch]_vars

\* The prayer-times widget in a document that may hold its section, opened with any
\* of the URLs; the router and the search field are left aside.
InitPrayer ==
    /\ hash \in WeatherHashes \cup {NoHash, CurrentLocationHash}
    /\ InitPage
    /\ locationSearch \in SearchStrings
    /\ prayerContainer \in BOOLEAN
    /\ geolocationApi \in BOOLEAN
    /\ prayerPc = "start"
    /\ coords = Null
    /\ promise = NoPromise
    /\ prayerTimer = NoTimer
    /\ positionRequest = NoPositionRequest
    /\ apiUrl = Null
    /\ metaEl = << >>
    /\ listEl = << >>
    /\ resolveCalls = << >>

PrayerTimesStarts == initPrayerTimes /\ UNCHANGED << weatherVars, searchVars >>

PermissionIsGranted == permissionGranted /\ UNCHANGED << weatherVars, searchVars >>

PositionSucceeds ==
    /\ \E pos \in Positions : positionSuccess(pos)
    /\ UNCHANGED << weatherVars, searchVars >>

PositionFails == positionError /\ UNCHANGED << weatherVars, searchVars >>

\* The platform reports its timeout.
PositionTimesOut ==
    /\ positionRequest.elapsed = positionOptions.timeout
    /\ PositionFails

PrayerTimerFires == prayerTimerFires /\ UNCHANGED << weatherVars, searchVars >>

PrayerTimePasses ==
    /\ \E d \in PrayerTimeSteps : prayerTimePasses(d)
    /\ UNCHANGED << weatherVars, searchVars >>

PrayerResponds ==
    /\ \E resp \in PrayerResponses : prayerResponse(resp)
    /\ UNCHANGED << weatherVars, searchVars >>

NextPrayer ==
    \/ PrayerTimesStarts
    \/ PermissionIsGranted
    \/ PositionSucceeds
    \/ PositionFails
    \/ PrayerTimerFires
    \/ PrayerTimePasses
    \/ PrayerResponds

\* The function starts when the module is loaded, time passes, a due timer fires and
\* the platform enforces its timeout; nothing is assumed of the user or the network.
SpecPrayer ==
    /\ InitPrayer
    /\ [][NextPrayer]_vars
    /\ WF_vars(PrayerTimesStarts)
    /\ WF_vars(PrayerTimePasses)
    /\ WF_vars(PrayerTimerFires)
    /\ WF_vars(PositionTimesOut)

(* ------------------------------- claims -------------------------------- *)
SectionsEmpty ==
    /\ currentWeatherSection = << >>
    /\ highlightsSection = << >>
    /\ hourlyForecastSection = << >>
    /\ dailyForecastSection = << >>

\* C1 (as stated): whenever the loading indicator has been hidden by a navigation, the
\* current-weather, the air-pollution and the forecast callbacks of that navigation
\* have all run with valid payloads.
C1_HiddenAfterAllThree ==
    \A n \in DOMAIN navs :
        n \in hiders =>
            /\ navs[n].cw = "rendered"
            /\ navs[n].ap = "rendered"
            /\ navs[n].fc = "rendered"

\* C1 (amended): whenever the loading indicator has been hidden by a navigation, the
\* current-weather and the forecast callbacks of that navigation have run with valid
\* payloads (the air-pollution callback need not have run); and as long as no callback
\* of a superseded navigation has run, the indicator shown by the latest call is
\* visible unless the latest navigation itself has hidden it.
C1_HiddenAfterWeatherAndForecast ==
    /\ \A n \in DOMAIN navs :
          n \in hiders =>
              /\ navs[n].cw = "rendered"
              /\ validatorCurrentWeather(navs[n].currentWeather)
              /\ navs[n].fc = "rendered"
              /\ validatorForecast(navs[n].forecast)
    /\ (navs # << >> /\ ~staleRan) =>
          \/ loading = "grid"
          \/ loading = "none" /\ Latest \in hiders

\* C1 witness: the indicator was hidden by a navigation whose air-pollution response
\* has not arrived.
C1_Witness ==
    /\ navs # << >>
    /\ Latest \in hiders
    /\ loading = "none"
    /\ navs[Latest].ap = "pending"

\* C2 (as stated): while the current-weather callback of the latest navigation has not
\* run, or its payload was rejected, the loading indicator is visible, the four
\* sections are empty and no follow-up request of that navigation has been issued.
C2_StuckLoading ==
    (navs # << >> /\ navs[Latest].cw \in {"pending", "failed", "rejected"}) =>
        /\ loading = "grid"
        /\ SectionsEmpty
        /\ navs[Latest].rg = "none" /\ navs[Latest].ap = "none" /\ navs[Latest].fc = "none"

\* C2 (amended): the same, provided no callback of an earlier navigation has run since
\* the latest call; the follow-up requests of the latest navigation are unissued in
\* every case.
C2_StuckLoadingUndisturbed ==
    (navs # << >> /\ navs[Latest].cw \in {"pending", "failed", "rejected"}) =>
        /\ navs[Latest].rg = "none" /\ navs[Latest].ap = "none" /\ navs[Latest].fc = "none"
        /\ ~staleRan => (loading = "grid" /\ SectionsEmpty)

\* C2 witness: the second navigation's current-weather payload was rejected after the
\* first navigation had rendered everything; the view is stuck in Loading.
C2_Witness ==
    /\ Len(navs) = 2
    /\ navs[1].fc = "rendered" /\ navs[1].ap = "rendered" /\ navs[1].rg = "done"
    /\ navs[2].cw = "rejected"
    /\ ~staleRan
    /\ loading = "grid"
    /\ SectionsEmpty

\* C3: the air-pollution and the forecast request of a navigation are issued only
\* after its current-weather callback has run with a payload that passed validation,
\* and a navigation that has rendered highlights or forecasts has rendered its "Now"
\* card before.
C3_FollowUpsAfterCurrentWeather ==
    \A n \in DOMAIN navs :
        (navs[n].ap # "none" \/ navs[n].fc # "none") =>
            /\ navs[n].cw = "rendered"
            /\ validatorCurrentWeather(navs[n].currentWeather)

\* C3 witness: a navigation has rendered its highlights and its forecasts.
C3_Witness ==
    \E n \in DOMAIN navs :
        /\ navs[n].cw = "rendered"
        /\ navs[n].ap = "rendered"
        /\ navs[n].fc = "rendered"

\* Every request of navigation n was answered and every payload passed validation.
AllValid(n) ==
    /\ navs[n].cw = "rendered"
    /\ navs[n].rg = "done"
    /\ navs[n].ap = "rendered"
    /\ navs[n].fc = "rendered"

\* The view a navigation's four responses determine, whatever order they arrived in.
FinalView(n) ==
    /\ currentWeatherSection = << nowCard(n, navs[n].currentWeather) >>
    /\ navs[n].location = locationLabel(navs[n].locations)
    /\ highlightsSection = << highlightsCard(n, navs[n].currentWeather, navs[n].airPollution) >>
    /\ hourlyForecastSection =
          << [src |-> n] @@ hourlyLoop(navs[n].forecast.list, navs[n].forecast.city.timezone, 0,
                                       [temp |-> << >>, wind |-> << >>]) >>
    /\ dailyForecastSection = << [src |-> n, items |-> dailyLoop(navs[n].forecast.list, 7, << >>)] >>
    /\ loading = "none"
    /\ overflowY = "overlay"
    /\ fadeIn = TRUE

\* C4: when the four responses of a navigation have all arrived with valid payloads,
\* and no callback of another navigation ran in between, the view (the four sections,
\* the location label, the loading indicator, scroll and fade-in) is the one the
\* payloads determine, in whatever order the reverse-geocode, air-pollution and
\* forecast callbacks ran.
C4_OrderIndependent ==
    (navs # << >> /\ ~staleRan /\ AllValid(Latest)) => FinalView(Latest)

\* C4 witness: a navigation is complete, with a forecast that renders hourly cards.
C4_Witness ==
    /\ navs # << >>
    /\ ~staleRan
    /\ AllValid(Latest)
    /\ Len(navs[Latest].forecast.list) > 0
    /\ Len(highlightsSection) = 1

\* C5: the step of every updateWeather call ends with the loading indicator visible,
\* the error view hidden and the four sections empty.
C5_CallEntersLoading ==
    [][ Len(navs') > Len(navs) =>
            /\ loading' = "grid"
            /\ errorInterface' = "none"
            /\ currentWeatherSection' = << >>
            /\ highlightsSection' = << >>
            /\ hourlyForecastSection' = << >>
            /\ dailyForecastSection' = << >> ]_vars

\* C5 witness: a second call, made after the first navigation was fully rendered, has
\* just put the view back into Loading.
C5_Witness ==
    /\ Len(navs) = 2
    /\ AllValid(1)
    /\ Len(navs[1].forecast.list) > 0
    /\ navs[2].cw = "pending"
    /\ ~staleRan
    /\ loading = "grid"
    /\ errorInterface = "none"
    /\ SectionsEmpty

\* C6: a new updateWeather call cancels nothing: it leaves the closures of the earlier
\* calls, with their pending requests, as they are, and a forecast or current-weather
\* callback of a superseded navigation that runs later writes its content into the
\* sections.
C6_NoCancellation ==
    [][ /\ Len(navs') > Len(navs) => SubSeq(navs', 1, Len(navs)) = navs
        /\ \A n \in DOMAIN navs :
              (n < Latest /\ navs[n].fc = "pending" /\ navs'[n].fc = "rendered") =>
                  /\ hourlyForecastSection'[1].src = n
                  /\ dailyForecastSection'[1].src = n
        /\ \A n \in DOMAIN navs :
              (n < Latest /\ navs[n].cw = "pending" /\ navs'[n].cw = "rendered") =>
                  currentWeatherSection' = Append(currentWeatherSection,
                                                  nowCard(n, navs'[n].currentWeather)) ]_vars

\* No request of any navigation is outstanding.
Settled == \A n \in DOMAIN navs : \A k \in Kinds : navs[n][k] # "pending"

\* C6 witness: both navigations are complete and the forecast sections show the first
\* navigation's forecast, written after the second call cleared them.
C6_Witness ==
    /\ Len(navs) = 2
    /\ Settled
    /\ AllValid(1) /\ AllValid(2)
    /\ hourlyForecastSection # << >> /\ hourlyForecastSection[1].src = 1
    /\ dailyForecastSection # << >> /\ dailyForecastSection[1].src = 1
    /\ Len(currentWeatherSection) = 1 /\ currentWeatherSection[1].src = 2

Min(a, b) == IF a < b THEN a ELSE b

\* The forecast callback of navigation n runs in this step with a valid payload.
ForecastRenders(n) == navs[n].fc = "pending" /\ navs'[n].fc = "rendered"

\* C7: after a valid forecast of length len, the daily section holds exactly the cards
\* of the entries at the 0-based indices 7, 15, 23, ... below len, in that order:
\* len \div 8 cards; a list of 40 entries gives the 5 cards of 7, 15, 23, 31 and 39.
C7_DailyEveryEighth ==
    \A n \in DOMAIN navs :
        navs[n].fc = "rendered" =>
            LET list == navs[n].forecast.list
            IN  /\ dailyForecastSection =
                      << [ src   |-> n,
                           items |-> [k \in 1..(Len(list) \div 8) |-> dailyLi(list[8 * k])] ] >>
                /\ Len(list) = 40 =>
                      dailyForecastSection[1].items =
                          << dailyLi(list[8]), dailyLi(list[16]), dailyLi(list[24]),
                             dailyLi(list[32]), dailyLi(list[40]) >>

\* C7 witness: a forecast of 40 entries was rendered as 5 daily cards.
C7_Witness ==
    /\ navs # << >>
    /\ navs[1].fc = "rendered"
    /\ Len(navs[1].forecast.list) = 40
    /\ Len(dailyForecastSection[1].items) = 5

\* C8: a forecast callback whose payload passes validation with fewer than 8 entries
\* renders no daily card, leaves the error view as it was, renders the hourly section
\* (one temperature and one wind card per entry) and hides the loading indicator.
C8_ShortForecast ==
    [][ \A n \in DOMAIN navs :
          ( /\ navs[n].fc = "pending" /\ navs'[n].fc # "pending"
            /\ validatorForecast(navs'[n].forecast)
            /\ Len(navs'[n].forecast.list) < 8 ) =>
              /\ navs'[n].fc = "rendered"
              /\ dailyForecastSection' = << [src |-> n, items |-> << >>] >>
              /\ errorInterface' = errorInterface
              /\ Len(hourlyForecastSection') = 1
              /\ Len(hourlyForecastSection'[1].temp) = Len(navs'[n].forecast.list)
              /\ Len(hourlyForecastSection'[1].wind) = Len(navs'[n].forecast.list)
              /\ loading' = "none" ]_vars

\* C8 witness: a forecast of 6 entries was rendered: 6 hourly cards, no daily card,
\* the loading indicator hidden.
C8_Witness ==
    /\ navs # << >>
    /\ navs[1].fc = "rendered"
    /\ Len(navs[1].forecast.list) = 6
    /\ Len(hourlyForecastSection[1].temp) = 6
    /\ dailyForecastSection[1].items = << >>
    /\ loading = "none"

\* C9: a forecast callback with a valid payload of length len renders min(len, 8)
\* temperature cards and min(len, 8) wind cards, those of the entries 0..min(len, 8)-1
\* in order, and ends with the loading indicator hidden, the container's scrolling
\* restored and the fade-in class set.
C9_HourlyFirstEight ==
    [][ \A n \in DOMAIN navs :
          ForecastRenders(n) =>
              LET list == navs'[n].forecast.list
                  tz   == navs'[n].forecast.city.timezone
                  m    == Min(Len(list), 8)
              IN  /\ hourlyForecastSection' =
                        << [ src  |-> n,
                             temp |-> [i \in 1..m |-> tempLi(list[i], tz)],
                             wind |-> [i \in 1..m |-> windLi(list[i], tz)] ] >>
                  /\ dailyForecastSection' # << >>
                  /\ loading' = "none"
                  /\ overflowY' = "overlay"
                  /\ fadeIn' = TRUE ]_vars

\* C9 witness: a forecast longer than 8 entries was rendered as 8 hourly cards.
C9_Witness ==
    /\ navs # << >>
    /\ navs[1].fc = "rendered"
    /\ Len(navs[1].forecast.list) > 8
    /\ Len(hourlyForecastSection[1].temp) = 8
    /\ Len(hourlyForecastSection[1].wind) = 8
    /\ loading = "none" /\ overflowY = "overlay" /\ fadeIn

\* C10 (as stated): once the reverse-geocode callback of a navigation has run, the
\* location label of its "Now" card is "<name>, <country>" of the first match, or
\* "Unknown location" when the response holds no match.
C10_LocationLabel ==
    \A n \in DOMAIN navs :
        navs[n].rg = "done" =>
            navs[n].location =
                IF Len(navs[n].locations) > 0
                THEN << navs[n].locations[1].name, ", ", navs[n].locations[1].country >>
                ELSE << "Unknown location" >>

\* C11 (as stated): when the reverse-geocode request of a navigation has failed
\* (fetchData never invoked its callback), the location label of that navigation's
\* "Now" card holds a placeholder string and is not empty; and whatever the state of
\* the reverse-geocode request, a navigation has hidden the loading indicator exactly
\* when its forecast has been rendered.
C11_LabelFallsBackOnFailure ==
    \A n \in DOMAIN navs :
        /\ navs[n].rg = "failed" => navs[n].location # << >>
        /\ n \in hiders <=> navs[n].fc = "rendered"

\* The elements of a sequence.
Range(seq) == { seq[i] : i \in DOMAIN seq }

\* The air-pollution request of navigation n failed or its payload was rejected.
AirPollutionLost(n) == navs[n].ap \in {"failed", "rejected"}

\* C12: the step in which the air-pollution request of a navigation fails or its
\* payload is rejected changes nothing on the page (no error view, no card); from then
\* on the highlights section holds no card of that navigation (it is empty when the
\* navigation is the latest and no superseded callback has run), the "Now" card of the
\* latest navigation is still in its section, and a valid forecast of that navigation
\* arriving later still renders the hourly and daily sections and hides the loading
\* indicator.
C12_AirPollutionFailureIsSilent ==
    [][ \A n \in DOMAIN navs :
          /\ (navs[n].ap = "pending" /\ AirPollutionLost(n)') => UNCHANGED << dom, hash >>
          /\ AirPollutionLost(n)' =>
                /\ \A card \in Range(highlightsSection') : card.src # n
                /\ (n = Len(navs') /\ ~staleRan') => highlightsSection' = << >>
                /\ n = Len(navs') =>
                      nowCard(n, navs'[n].currentWeather) \in Range(currentWeatherSection')
                /\ ForecastRenders(n) =>
                      /\ hourlyForecastSection' =
                            << [src |-> n] @@ hourlyLoop(navs'[n].forecast.list,
                                                         navs'[n].forecast.city.timezone, 0,
                                                         [temp |-> << >>, wind |-> << >>]) >>
                      /\ dailyForecastSection' =
                            << [src |-> n, items |-> dailyLoop(navs'[n].forecast.list, 7, << >>)] >>
                      /\ loading' = "none"
                      /\ errorInterface' = errorInterface ]_vars

\* C12 witness (PartiallyRendered): the latest navigation's air-pollution payload was
\* rejected, its "Now" card and its forecast are rendered, the highlights section is
\* empty and the error view is hidden.
C12_Witness ==
    /\ navs # << >>
    /\ ~staleRan
    /\ navs[Latest].ap = "rejected"
    /\ navs[Latest].fc = "rendered"
    /\ Len(navs[Latest].forecast.list) > 0
    /\ highlightsSection = << >>
    /\ Len(currentWeatherSection) = 1
    /\ hourlyForecastSection # << >> /\ hourlyForecastSection[1].src = Latest
    /\ dailyForecastSection # << >>
    /\ loading = "none"
    /\ errorInterface = "none"

\* The forecast request of navigation n failed or its payload was rejected.
ForecastLost(n) == navs[n].fc \in {"failed", "rejected"}

\* C13 (as stated): once the forecast request of the latest navigation has failed or
\* its payload was rejected, and no other hash has been dispatched, the hourly and
\* daily sections are empty, the error view is not shown and the loading indicator
\* is visible.
C13_ForecastFailureKeepsLoading ==
    (navs # << >> /\ ForecastLost(Latest) /\ hash # UnknownHash) =>
        /\ hourlyForecastSection = << >>
        /\ dailyForecastSection = << >>
        /\ errorInterface = "none"
        /\ loading = "grid"

\* C13 (amended): the step in which a forecast request fails or its payload is
\* rejected changes nothing on the page; and once that has happened to the latest
\* navigation, as long as no other hash is dispatched and no callback of an earlier
\* navigation has run since the call, the hourly and daily sections are empty, the
\* error view is hidden and the loading indicator is visible.
C13_ForecastFailureKeepsLoadingUndisturbed ==
    [][ /\ \A n \in DOMAIN navs :
              (navs[n].fc = "pending" /\ ForecastLost(n)') => UNCHANGED << dom, hash >>
        /\ (navs' # << >> /\ ForecastLost(Latest)' /\ hash' # UnknownHash /\ ~staleRan') =>
              /\ hourlyForecastSection' = << >>
              /\ dailyForecastSection' = << >>
              /\ errorInterface' = "none"
              /\ loading' = "grid" ]_vars

\* C13 witness: the latest navigation has rendered its "Now" card and its highlights
\* card, its forecast payload was rejected, and the indicator is still visible.
C13_Witness ==
    /\ navs # << >>
    /\ ~staleRan
    /\ navs[Latest].fc = "rejected"
    /\ navs[Latest].ap = "rendered"
    /\ navs[Latest].rg = "done"
    /\ Len(currentWeatherSection) = 1
    /\ Len(highlightsSection) = 1
    /\ hourlyForecastSection = << >>
    /\ dailyForecastSection = << >>
    /\ loading = "grid"
    /\ errorInterface = "none"

\* The number of requests navigation n has issued.
RequestsSent(n) == navs[n].sent.cw + navs[n].sent.rg + navs[n].sent.ap + navs[n].sent.fc

\* C14: every navigation has issued exactly one current-weather request; it has issued
\* one reverse-geocode, one air-pollution and one forecast request if its
\* current-weather payload passed validation and none of them otherwise, so 1 or 4
\* requests in total; and a request that failed or whose payload was rejected stays
\* so, with no further request of its kind issued in that navigation.
C14_NoRetry ==
    [][ /\ \A n \in DOMAIN navs' :
              /\ navs'[n].sent.cw = 1
              /\ \A k \in Kinds \ {"cw"} :
                    navs'[n].sent[k] =
                        IF navs'[n].cw = "rendered" /\ validatorCurrentWeather(navs'[n].currentWeather)
                        THEN 1 ELSE 0
              /\ \A k \in Kinds : navs'[n].sent[k] = 0 <=> navs'[n][k] = "none"
              /\ RequestsSent(n)' \in {1, 4}
        /\ \A n \in DOMAIN navs : \A k \in Kinds :
              navs[n][k] \in {"failed", "rejected"} =>
                  /\ navs'[n][k] = navs[n][k]
                  /\ navs'[n].sent[k] = navs[n].sent[k] ]_vars

\* C14 witness: one navigation stopped after its single, rejected current-weather
\* request, and another issued its four requests, of which the forecast failed and the
\* air-pollution payload was rejected.
C14_Witness ==
    /\ Len(navs) = 2
    /\ Settled
    /\ navs[1].cw = "rejected" /\ RequestsSent(1) = 1
    /\ navs[2].fc = "failed" /\ navs[2].ap = "rejected" /\ RequestsSent(2) = 4

\* C15: every card in the highlights section is the card built from the air-pollution
\* response and the current-weather payload of one and the same navigation, the one
\* whose air-pollution callback appended it, however the callbacks of overlapping
\* navigations interleave.
C15_HighlightsFromOneNavigation ==
    \A card \in Range(highlightsSection) :
        /\ card.src \in DOMAIN navs
        /\ navs[card.src].ap = "rendered"
        /\ navs[card.src].cw = "rendered"
        /\ card = highlightsCard(card.src, navs[card.src].currentWeather,
                                 navs[card.src].airPollution)

\* C15 witness: two overlapping navigations to different places; the air-pollution
\* callback of the first ran after the current-weather and air-pollution callbacks of
\* the second, and its card still carries the first navigation's weather values.
C15_Witness ==
    /\ Len(navs) = 2
    /\ navs[1].lat # navs[2].lat
    /\ Len(highlightsSection) = 2
    /\ highlightsSection[1].src = 2
    /\ highlightsSection[2].src = 1
    /\ highlightsSection[1].feels_like # highlightsSection[2].feels_like
    /\ highlightsSection[2].feels_like = parseInt(navs[1].currentWeather.main.feels_like)

\* C16: as long as no callback of an earlier navigation has run since the latest
\* updateWeather call (as when the earlier navigations had settled before it), every
\* section holds only content of the latest navigation, built from its own responses,
\* with at most one "Now" card, one highlights card, one hourly and one daily block.
C16_NothingCarriedOver ==
    (navs # << >> /\ ~staleRan) =>
        /\ Len(currentWeatherSection) <= 1
        /\ Len(highlightsSection) <= 1
        /\ Len(hourlyForecastSection) <= 1
        /\ Len(dailyForecastSection) <= 1
        /\ \A card \in Range(currentWeatherSection) :
              card.src = Latest /\ card = nowCard(Latest, navs[Latest].currentWeather)
        /\ \A card \in Range(highlightsSection) :
              card.src = Latest /\ card = highlightsCard(Latest, navs[Latest].currentWeather,
                                                          navs[Latest].airPollution)
        /\ \A block \in Range(hourlyForecastSection) :
              block.src = Latest /\
              block = [src |-> Latest] @@
                      hourlyLoop(navs[Latest].forecast.list, navs[Latest].forecast.city.timezone,
                                 0, [temp |-> << >>, wind |-> << >>])
        /\ \A block \in Range(dailyForecastSection) :
              block.src = Latest /\
              block = [src |-> Latest,
                       items |-> dailyLoop(navs[Latest].forecast.list, 7, << >>)]

\* C16 witness: the first navigation was fully rendered before the second call, and
\* the second, to another place, is now fully rendered as well.
C16_Witness ==
    /\ Len(navs) = 2
    /\ ~staleRan
    /\ navs[1].lat # navs[2].lat
    /\ AllValid(1) /\ Len(navs[1].forecast.list) > 0
    /\ AllValid(2) /\ Len(navs[2].forecast.list) > 0
    /\ FinalView(2)

\* The hash is one of the two routes the router recognises.
Routable(h) == h.route \in {"/weather", "/current-location"}

\* C19: after every dispatch, the 404 view is displayed ("flex") exactly when the hash
\* dispatched last is not a recognised route, and hidden ("none") when it is; in
\* particular a "#/weather" dispatch (the "Go Home" link) made while the 404 view is
\* displayed hides it, and no callback changes it in between.
C19_ErrorViewIffUnroutable ==
    [][ /\ hash' # NoHash
        /\ errorInterface' = "flex" <=> ~Routable(hash')
        /\ errorInterface' = "none" <=> Routable(hash')
        /\ (errorInterface = "flex" /\ hash' \in WeatherHashes /\ hash # hash') =>
              /\ errorInterface' = "none"
              /\ Len(navs') = Len(navs) + 1 ]_vars

\* C19 witness: an unrecognised hash was dispatched after a navigation had rendered
\* its forecast; the 404 view is displayed.
C19_Witness ==
    /\ hash = UnknownHash
    /\ errorInterface = "flex"
    /\ navs # << >>
    /\ navs[Latest].fc = "rendered"

\* C17: an input event leaves no timer armed except the one it arms itself, with the
\* full delay; at most one timer is armed at any time and only an input event arms
\* one; a geocode request is issued only when the full 500 ms have passed since the
\* last input event and that event left a non-blank query, it is a single request for
\* the field's content, and no timer remains armed after it: so a burst of input
\* events less than 500 ms apart issues at most one request, after its last event.
C17_Debounce ==
    [][ /\ Cardinality(timers') <= 1
        /\ inputs' # inputs =>
              \A t \in timers' :
                  /\ t.id = searchTimeout' /\ t.id \notin { o.id : o \in timers }
                  /\ t.remaining = searchTimeoutDuration
                  /\ trim(searchFieldValue') # << >>
        /\ inputs' = inputs => { t.id : t \in timers' } \subseteq { t.id : t \in timers }
        /\ geoRequests' # geoRequests /\ Len(geoRequests') > Len(geoRequests) =>
              /\ sinceInput = searchTimeoutDuration
              /\ inputs' = inputs
              /\ trim(searchFieldValue) # << >>
              /\ Len(geoRequests') = Len(geoRequests) + 1
              /\ geoRequests'[Len(geoRequests')].query = searchFieldValue
              /\ timers' = {} ]_vars

\* C17 witness: three input events armed three timers; the first two were cancelled by
\* the event that followed them, and a single request went out for the content the
\* last event left.
C17_Witness ==
    /\ inputs = 3
    /\ searchTimeout = 3
    /\ timers = {}
    /\ Len(geoRequests) = 1
    /\ geoRequests[1].query = searchFieldValue

\* The callback of geocode request r runs in this step.
GeoCallbackRuns(r) == geoRequests[r].status = "pending" /\ geoRequests'[r].status = "done"

\* C18: an issued geocode request stays in flight until its own response: no input
\* event, timer or click removes or changes it; and whenever its callback runs with at
\* least one location, even after the response of a newer request has been rendered,
\* the result list becomes active and shows the locations of that request.
C18_StaleResultsRendered ==
    [][ \A r \in DOMAIN geoRequests :
          /\ r \in DOMAIN geoRequests'
          /\ geoRequests'[r] # geoRequests[r] =>
                /\ geoRequests[r].status = "pending"
                /\ geoRequests'[r].status \in {"done", "failed"}
                /\ inputs' = inputs /\ timers' = timers
          /\ GeoCallbackRuns(r) =>
                /\ arrivals' = Append(arrivals, r)
                /\ ~searching'
                /\ Len(geoRequests'[r].locations) > 0 =>
                      searchResult' =
                          [active |-> TRUE,
                           list   |-> [i \in DOMAIN geoRequests'[r].locations |->
                                          searchItem(geoRequests'[r].locations[i])],
                           src    |-> r] ]_vars

\* C18 witness: two requests for different queries were in flight together; the newer
\* was answered first, the older afterwards, and the list shows the older query's
\* locations while the field holds the newer query.
C18_Witness ==
    /\ Len(geoRequests) = 2
    /\ geoRequests[1].query # geoRequests[2].query
    /\ arrivals = << 2, 1 >>
    /\ Len(geoRequests[1].locations) > 0 /\ Len(geoRequests[2].locations) > 0
    /\ searchFieldValue = geoRequests[2].query
    /\ searchResult.active
    /\ searchResult.src = 1
    /\ searchResult.list[1].title = << trim(geoRequests[1].query), 1 >>

\* The coordinates the resolution must end with: those of the URL when it has both
\* parameters; else the position of the geolocation request when its success callback
\* was the first to call resolve; else the fallback.
ExpectedCoords ==
    IF getCoordsFromUrl # Null THEN getCoordsFromUrl
    ELSE IF resolveCalls # << >> /\ resolveCalls[1].who = "success" THEN resolveCalls[1].value
    ELSE FallbackCoords

\* The coordinate resolution is over: the function returned or went on to the request.
CoordsResolved == prayerPc \notin {"start", "awaiting"}

\* C20: the coordinate resolution of initPrayerTimes always comes to an end; when the
\* function has gone on to the request, coords is not null, is the expected pair (URL
\* parameters, else the position that arrived before the timer and any error, else the
\* fallback) and is what the request was built from; geolocation is asked only when
\* the URL gives no pair and the API is available; the promise is settled by the
\* first call of resolve, and later calls (a late callback or the timer) change
\* neither the promise nor the coordinates nor the request.
C20_CoordsResolved ==
    /\ <>CoordsResolved
    /\ [](prayerPc \in {"fetching", "rendered", "error"} =>
            /\ coords # Null
            /\ coords = ExpectedCoords
            /\ apiUrl # Null
            /\ apiUrl.latitude = coords.lat /\ apiUrl.longitude = coords.lon)
    /\ []((getCoordsFromUrl # Null \/ ~geolocationApi) =>
            (resolveCalls = << >> /\ positionRequest.state = "idle" /\ promise = NoPromise))
    /\ [](promise.state = "fulfilled" <=> resolveCalls # << >>)
    /\ [](promise.state = "fulfilled" => promise.value = resolveCalls[1].value)
    /\ [](prayerPc = "awaiting" =>
            (promise.state = "pending" /\ prayerTimer.armed /\ coords = Null))
    /\ [][ /\ promise.state = "fulfilled" => promise' = promise
           /\ coords # Null => coords' = coords
           /\ apiUrl # Null => apiUrl' = apiUrl ]_vars

\* C20 witness: the timer fired first and the request went out for the fallback
\* coordinates; the success callback of the geolocation request came later and changed
\* nothing.
C20_Witness ==
    /\ Len(resolveCalls) = 2
    /\ resolveCalls[1].who = "timer"
    /\ resolveCalls[2].who = "success"
    /\ promise = [state |-> "fulfilled", value |-> Null]
    /\ coords = FallbackCoords
    /\ apiUrl # Null /\ apiUrl.latitude = FallbackCoords.lat
    /\ prayerPc \in {"fetching", "rendered"}

\* C21: the forecast callback of a superseded navigation that runs with a valid
\* payload hides the loading indicator, restores the scroll and applies the fade-in,
\* whatever the newer navigation has received so far.
C21_StaleForecastHidesLoader ==
    [][ \A n \in DOMAIN navs :
          (n < Latest /\ ForecastRenders(n)) =>
              /\ loading' = "none"
              /\ overflowY' = "overlay"
              /\ fadeIn'
              /\ n \in hiders' ]_vars

\* C21 witness: the newest navigation still waits for its current weather and the
\* current-weather section is empty, yet the indicator is hidden and the fade-in
\* applied, by the forecast callback of the navigation before it.
C21_Witness ==
    /\ Len(navs) = 2
    /\ navs[2].cw = "pending"
    /\ currentWeatherSection = << >>
    /\ loading = "none"
    /\ fadeIn
    /\ overflowY = "overlay"
    /\ hiders = {1}
    /\ hourlyForecastSection # << >> /\ hourlyForecastSection[1].src = 1

\* A request of navigation n of one of the given kinds is answered or fails in this step.
Answered(n, kinds) == \E k \in kinds : navs[n][k] = "pending" /\ navs'[n][k] # "pending"

\* C22: the loading indicator becomes visible only in the step of an updateWeather
\* call and hidden only in the step of a forecast callback whose payload passed
\* validation; it takes no other value; and the steps of the current-weather, the
\* reverse-geocode and the air-pollution callbacks (or failures) and of error404 leave
\* it as it is.
C22_LoaderTransitions ==
    [][ /\ loading' # loading => loading' \in {"grid", "none"}
        /\ (loading' # loading /\ loading' = "grid") => Len(navs') = Len(navs) + 1
        /\ (loading' # loading /\ loading' = "none") =>
              \E n \in DOMAIN navs :
                  ForecastRenders(n) /\ validatorForecast(navs'[n].forecast)
        /\ \A n \in DOMAIN navs : Answered(n, {"cw", "rg", "ap"}) => loading' = loading
        /\ \A n \in DOMAIN navs : (Answered(n, {"fc"}) /\ ~ForecastRenders(n)) => loading' = loading
        /\ (hash' = UnknownHash /\ errorInterface' = "flex" /\ navs' = navs) =>
              loading' = loading ]_vars

\* C22 witness: after a call the current-weather, reverse-geocode and air-pollution
\* callbacks ran and an unroutable hash brought up the 404 view; the indicator is
\* still the one the call showed.
C22_Witness ==
    /\ navs # << >>
    /\ navs[Latest].cw = "rendered" /\ navs[Latest].rg = "done" /\ navs[Latest].ap = "rendered"
    /\ navs[Latest].fc = "pending"
    /\ ~staleRan
    /\ hash = UnknownHash /\ errorInterface = "flex"
    /\ loading = "grid"

\* The location labels of the cards of the navigations other than n stay as they are.
OtherLabelsKept(n) ==
    \A m \in DOMAIN navs : m # n => navs'[m].location = navs[m].location

\* C23: in a step in which a callback of navigation n runs with an accepted payload,
\* the current-weather callback changes nothing of the view but the current-weather
\* section, the reverse-geocode callback nothing but the label of the card of n, the
\* air-pollution callback nothing but the highlights section, and the forecast
\* callback nothing but the hourly and daily sections, the loading indicator, the
\* scroll and the fade-in; a callback whose payload is rejected, and a failed
\* request, change nothing of the view.
C23_FrameOfCallbacks ==
    [][ \A n \in DOMAIN navs :
          /\ (navs[n].cw = "pending" /\ navs'[n].cw = "rendered") =>
                /\ UNCHANGED << hash, loading, overflowY, fadeIn, errorInterface,
                                currentLocationBtn, highlightsSection, hourlyForecastSection,
                                dailyForecastSection >>
                /\ OtherLabelsKept(n) /\ navs'[n].location = navs[n].location
          /\ (navs[n].rg = "pending" /\ navs'[n].rg = "done") =>
                /\ UNCHANGED << hash, dom >>
                /\ OtherLabelsKept(n)
          /\ (navs[n].ap = "pending" /\ navs'[n].ap = "rendered") =>
                /\ UNCHANGED << hash, loading, overflowY, fadeIn, errorInterface,
                                currentLocationBtn, currentWeatherSection,
                                hourlyForecastSection, dailyForecastSection >>
                /\ OtherLabelsKept(n) /\ navs'[n].location = navs[n].location
          /\ ForecastRenders(n) =>
                /\ UNCHANGED << hash, errorInterface, currentLocationBtn,
                                currentWeatherSection, highlightsSection >>
                /\ OtherLabelsKept(n) /\ navs'[n].location = navs[n].location
          /\ (\E k \in Kinds : navs[n][k] = "pending" /\ navs'[n][k] \in {"rejected", "failed"}) =>
                /\ UNCHANGED << hash, dom >>
                /\ OtherLabelsKept(n) /\ navs'[n].location = navs[n].location ]_vars

\* C23 witness: the first navigation's current-weather payload was rejected and left
\* nothing; the four callbacks of the second ran, each filling its own part.
C23_Witness ==
    /\ Len(navs) = 2
    /\ navs[1].cw = "rejected" /\ navs[1].location = << >>
    /\ AllValid(2)
    /\ navs[2].location # << >>
    /\ Len(currentWeatherSection) = 1
    /\ Len(highlightsSection) = 1
    /\ Len(hourlyForecastSection) = 1 /\ Len(dailyForecastSection) = 1
    /\ loading = "none" /\ fadeIn /\ errorInterface = "none"

\* C24: the step of an updateWeather call leaves the current-location button disabled
\* exactly when the hash at the call is "#/current-location"; every other step (a
\* callback, a failed request, error404) leaves the button as it is.
C24_CurrentLocationButton ==
    [][ /\ Len(navs') > Len(navs) =>
              (currentLocationBtn' <=> hash' = CurrentLocationHash)
        /\ Len(navs') = Len(navs) => currentLocationBtn' = currentLocationBtn ]_vars

\* C24 witness: a call under "#/current-location" disabled the button, a later call
\* under a "#/weather" hash enabled it again, and callbacks of both have run since.
C24_Witness ==
    /\ Len(navs) = 2
    /\ navs[1].lat \in { p.lat : p \in Positions }
    /\ hash \in WeatherHashes
    /\ ~currentLocationBtn
    /\ navs[1].fc = "rendered" /\ navs[2].fc = "rendered"
    /\ staleRan

\* C25: an input event that leaves the field blank leaves no timer armed, an empty and
\* inactive result list and no searching marker, and leaves every geocode request as it
\* was; the callback of a request still in flight then runs as usual, and with at least
\* one location it makes the list active and non-empty although the field is blank.
C25_ClearedFieldKeepsRequests ==
    [][ /\ (inputs' # inputs /\ trim(searchFieldValue') = << >>) =>
              /\ timers' = {}
              /\ searchResult' = NoResult
              /\ ~searching'
              /\ geoRequests' = geoRequests
        /\ \A r \in DOMAIN geoRequests :
              (GeoCallbackRuns(r) /\ trim(searchFieldValue) = << >>
                  /\ Len(geoRequests'[r].locations) > 0) =>
                    /\ searchFieldValue' = searchFieldValue
                    /\ searchResult'.active
                    /\ searchResult'.list # << >>
                    /\ searchResult'.src = r ]_vars

\* C25 witness: the field is empty, no timer is armed, and the list is active with the
\* locations of the one request, issued for the non-blank content the field held before:
\* its callback ran after the event that emptied the field and the list.
C25_Witness ==
    /\ searchFieldValue = << >>
    /\ timers = {}
    /\ Len(geoRequests) = 1
    /\ trim(geoRequests[1].query) # << >>
    /\ arrivals = << 1 >>
    /\ searchResult.active
    /\ searchResult.list # << >>
    /\ searchResult.src = 1
    /\ ~searching

====
